---- MODULE Spec2Model ----
(***************************************************************************)
(* The vmodule filter of the klog v1 shim (src/klog.go): the Filter Set    *)
(* global.vModuleFilter, the Call-Site Cache global.vModuleCache, the      *)
(* mutex global.vModuleMu that guards both, the flag setter                *)
(* vmoduleValue.Set ("Update"), the lookup vmoduleGet ("Get") and V.       *)
(*                                                                         *)
(* Go strings are sequences of one-character strings, so that Split,       *)
(* ParseInt, isLiteral, filepath.Match and the stripping of the file name  *)
(* are computed character by character as the code computes them.          *)
(*                                                                         *)
(* Spec is the filter under concurrent calls of V and Set.  ParseSpec is   *)
(* one Set on its own over many values, MatchSpec one match on its own     *)
(* over many patterns and file names, ResolveSpec one resolution of a file *)
(* name on its own over many paths, ShimSpec the forwarding functions.     *)
(***************************************************************************)
EXTENDS Integers, Sequences, FiniteSets, TLC

(***************************************************************************)
(* Bounds of the model.                                                    *)
(***************************************************************************)
\* V is called with the levels 1..MaxLevel
MaxLevel == 2
\* the count of call-site resolutions saturates here
ResolveCap == 2

\* strconv.ParseInt(s, 10, 32): the range of a signed 32-bit integer
MaxInt32 == 2147483647
MinInt32 == -2147483647 - 1

\* the goroutines that call V and Set concurrently
Procs == { 1, 2 }
Levels == 1..MaxLevel

(***************************************************************************)
(* Strings.                                                                *)
(***************************************************************************)
\* the characters of the model in code-point order (for the ranges of a
\* character class)
Chars == << "*", "+", ",", "-", ".", "/", "0", "1", "2", "3", "4", "5", "6", "7",
            "8", "9", "=", "?", "[", "\\", "]", "^", "_", "a", "b", "c", "d", "e",
            "f", "g", "h", "k", "l", "m", "n", "o", "p", "r", "s", "t", "x", "z" >>

Ord(c) == CHOOSE i \in 1..Len(Chars) : Chars[i] = c

Digits == << "0", "1", "2", "3", "4", "5", "6", "7", "8", "9" >>

IsDigit(c) == \E i \in 1..10 : Digits[i] = c

DigitVal(c) == (CHOOSE i \in 1..10 : Digits[i] = c) - 1

\* s[i:] of Go, with i counted from 0
Drop(s, i) == SubSeq(s, i + 1, Len(s))

\* strings.HasSuffix
HasSuffix(s, suf) ==
    /\ Len(s) >= Len(suf)
    /\ SubSeq(s, Len(s) - Len(suf) + 1, Len(s)) = suf

\* strings.Index for a one-character separator: 0-based, -1 when absent
Index(s, c) ==
    IF \E i \in 1..Len(s) : s[i] = c
    THEN (CHOOSE i \in 1..Len(s) : s[i] = c /\ \A j \in 1..(i - 1) : s[j] # c) - 1
    ELSE -1

\* strings.LastIndex for a one-character separator: 0-based, -1 when absent
LastIndex(s, c) ==
    IF \E i \in 1..Len(s) : s[i] = c
    THEN (CHOOSE i \in 1..Len(s) : s[i] = c /\ \A j \in (i + 1)..Len(s) : s[j] # c) - 1
    ELSE -1

\* strings.Split(s, sep) for a one-character sep: always at least one
\* element, Split("", ",") is <<"">>
RECURSIVE Split(_, _)
Split(s, sep) ==
    LET i == Index(s, sep)
    IN  IF i < 0 THEN << s >>
        ELSE << SubSeq(s, 1, i) >> \o Split(Drop(s, i + 1), sep)

\* strings.ContainsAny
ContainsAny(s, chars) == \E i \in 1..Len(s) : s[i] \in chars

(***************************************************************************)
(* strconv.ParseInt(s, 10, 32), as vmoduleValue.Set uses it: the error is  *)
(* discarded and only the returned number is kept.  A syntax error returns *)
(* 0; a range error returns the nearest 32-bit bound.  The digits are      *)
(* accumulated as ParseUint does, and the scan stops at the first overflow *)
(* of the unsigned 32-bit range (before any later character is looked at). *)
(* big stands for an accumulated value in 2^31 .. 2^32-1.                  *)
(***************************************************************************)
RECURSIVE ParseUint(_, _, _, _)
ParseUint(s, i, n, big) ==
    IF i > Len(s) THEN [kind |-> "ok", n |-> n, big |-> big]
    ELSE IF ~IsDigit(s[i]) THEN [kind |-> "syntax", n |-> 0, big |-> FALSE]
    ELSE LET d == DigitVal(s[i])
         IN  IF big THEN [kind |-> "range", n |-> 0, big |-> TRUE]
             ELSE IF n < 214748364 \/ (n = 214748364 /\ d <= 7)
                  THEN ParseUint(s, i + 1, n * 10 + d, FALSE)
             ELSE IF n < 429496729 \/ (n = 429496729 /\ d <= 5)
                  THEN ParseUint(s, i + 1, 0, TRUE)
             ELSE [kind |-> "range", n |-> 0, big |-> TRUE]

\* the digits s starts with, as a number (what C's atoi would keep of s)
RECURSIVE LeadingDigits(_, _, _)
LeadingDigits(s, i, n) ==
    IF i > Len(s) \/ ~IsDigit(s[i]) \/ n > 9999 THEN n
    ELSE LeadingDigits(s, i + 1, n * 10 + DigitVal(s[i]))

\* the number ParseInt returns together with ErrSyntax for the digits text s
\* (line 143 discards the error and keeps the number)
errSyntaxValue_atoi(s) == LeadingDigits(s, 1, 0)
errSyntaxValue(s) == 0

ParseInt(s) ==
    IF Len(s) = 0 THEN errSyntaxValue(s)
    ELSE LET neg  == s[1] = "-"
             rest == IF s[1] \in {"+", "-"} THEN Drop(s, 1) ELSE s
             un   == IF Len(rest) = 0
                     THEN [kind |-> "syntax", n |-> 0, big |-> FALSE]
                     ELSE ParseUint(rest, 1, 0, FALSE)
         IN  IF un.kind = "syntax" THEN errSyntaxValue(rest)
             ELSE IF un.kind = "range" \/ un.big
                  THEN IF neg THEN MinInt32 ELSE MaxInt32
             ELSE IF neg THEN 0 - un.n ELSE un.n

(***************************************************************************)
(* modulePat and its match.                                                *)
(***************************************************************************)
\* the metacharacters of isLiteral
Meta == {"\\", "*", "?", "[", "]"}

\* the same without the test for '\': an escaped character is taken for two
\* characters of a literal
isLiteral_noBackslash(pattern) == ~ContainsAny(pattern, Meta \ {"\\"})
\* the same without the test for '[': an unterminated class is taken for a
\* literal
isLiteral_noBracket(pattern) == ~ContainsAny(pattern, Meta \ {"["})
isLiteral(pattern) == ~ContainsAny(pattern, Meta)

modulePat(pattern, literal, level) ==
    [pattern |-> pattern, literal |-> literal, level |-> level]

(***************************************************************************)
(* filepath.Match(pattern, name) on a non-Windows build, as the Go         *)
(* library documents it: '*' matches any run of non-separator characters,  *)
(* '?' one non-separator character, '[' ['^'] range... ']' one character   *)
(* of the class, '\c' the character c, any other character itself.  The    *)
(* whole name must be consumed.  A malformed pattern gives                 *)
(* (false, ErrBadPattern); match discards the error, so it matches nothing.*)
(***************************************************************************)
\* getEsc: one (possibly escaped) character of a class, at 1-based position
\* i of p: [ok, c, next]; an error when the pattern ends, at '-' or ']', or
\* when nothing follows the character
GetEsc(p, i) ==
    IF i > Len(p) \/ p[i] = "-" \/ p[i] = "]"
    THEN [ok |-> FALSE, c |-> "", next |-> i]
    ELSE LET j == IF p[i] = "\\" THEN i + 1 ELSE i
         IN  IF j > Len(p) \/ j + 1 > Len(p)
             THEN [ok |-> FALSE, c |-> "", next |-> j]
             ELSE [ok |-> TRUE, c |-> p[j], next |-> j + 1]

\* the ranges of a class from position i on, nrange of them already read:
\* [ok, hit, next] where hit says whether r lies in one of the ranges and
\* next is the position after the closing ']'
RECURSIVE ClassRanges(_, _, _, _, _)
ClassRanges(p, i, nrange, r, hit) ==
    IF i <= Len(p) /\ p[i] = "]" /\ nrange > 0
    THEN [ok |-> TRUE, hit |-> hit, next |-> i + 1]
    ELSE LET lo == GetEsc(p, i)
         IN  IF ~lo.ok THEN [ok |-> FALSE, hit |-> FALSE, next |-> i]
             ELSE IF p[lo.next] = "-"
                  THEN LET hi == GetEsc(p, lo.next + 1)
                       IN  IF ~hi.ok THEN [ok |-> FALSE, hit |-> FALSE, next |-> i]
                           ELSE ClassRanges(p, hi.next, nrange + 1, r,
                                    hit \/ (Ord(lo.c) <= Ord(r) /\ Ord(r) <= Ord(hi.c)))
                  ELSE ClassRanges(p, lo.next, nrange + 1, r, hit \/ lo.c = r)

RECURSIVE Match(_, _)
Match(p, name) ==
    IF Len(p) = 0 THEN Len(name) = 0
    ELSE IF p[1] = "*"
         THEN \E k \in 0..Len(name) :
                  /\ \A j \in 1..k : name[j] # "/"
                  /\ Match(Drop(p, 1), Drop(name, k))
    ELSE IF Len(name) = 0 THEN FALSE
    ELSE IF p[1] = "?"
         THEN name[1] # "/" /\ Match(Drop(p, 1), Drop(name, 1))
    ELSE IF p[1] = "["
         THEN LET negated == Len(p) >= 2 /\ p[2] = "^"
                  cls     == ClassRanges(p, IF negated THEN 3 ELSE 2, 0, name[1], FALSE)
              IN  /\ cls.ok
                  /\ cls.hit # negated
                  /\ Match(Drop(p, cls.next - 1), Drop(name, 1))
    ELSE IF p[1] = "\\"
         THEN /\ Len(p) >= 2
              /\ name[1] = p[2]
              /\ Match(Drop(p, 2), Drop(name, 1))
    ELSE name[1] = p[1] /\ Match(Drop(p, 1), Drop(name, 1))

\* the pattern searched for in the file name: it may match a tail of the
\* name instead of the whole name
match_anywhere(m, file) ==
    \E k \in 0..Len(file) : Match(m.pattern, Drop(file, k))

\* modulePat.match
match(m, file) ==
    IF m.literal THEN file = m.pattern ELSE Match(m.pattern, file)

(***************************************************************************)
(* The loop of vmoduleValue.Set (lines 135-149) over the segments of       *)
(* value: an empty segment is skipped, patLev[1] of a segment without '='  *)
(* is an index out of range (a run-time panic), a level of 0 is dropped.   *)
(***************************************************************************)
\* line 137: an empty segment is skipped
emptySegment_never(pat) == FALSE
emptySegment(pat) == Len(pat) = 0

\* line 144: a rule of level 0 is not stored
dropLevel_never(v) == FALSE
dropLevel(v) == v = 0

RECURSIVE parseSegments(_, _, _)
parseSegments(segs, i, filter) ==
    IF i > Len(segs) THEN [panic |-> FALSE, filter |-> filter]
    ELSE LET pat == segs[i]
         IN  IF emptySegment(pat) THEN parseSegments(segs, i + 1, filter)
             ELSE LET patLev  == Split(pat, "=")
                      pattern == patLev[1]
                  IN  IF Len(patLev) < 2 THEN [panic |-> TRUE, filter |-> << >>]
                      ELSE LET v == ParseInt(patLev[2])
                           IN  IF dropLevel(v) THEN parseSegments(segs, i + 1, filter)
                               ELSE parseSegments(segs, i + 1,
                                        Append(filter, modulePat(pattern, isLiteral(pattern), v)))

parseSpec(value) == parseSegments(Split(value, ","), 1, << >>)

(***************************************************************************)
(* vmoduleGet, lines 250-264: the file name of the call site without its   *)
(* ".go" suffix and its directories, and the level of the first rule of    *)
(* the filter that matches it, 0 when none does.                           *)
(***************************************************************************)
\* lines 251-256 with strings.Index for strings.LastIndex: from the first '/' on
baseName_firstSlash(file) ==
    LET f     == IF HasSuffix(file, << ".", "g", "o" >>)
                 THEN SubSeq(file, 1, Len(file) - 3) ELSE file
        slash == Index(f, "/")
    IN  IF slash >= 0 THEN Drop(f, slash + 1) ELSE f

baseName(file) ==
    LET f     == IF HasSuffix(file, << ".", "g", "o" >>)
                 THEN SubSeq(file, 1, Len(file) - 3) ELSE file
        slash == LastIndex(f, "/")
    IN  IF slash >= 0 THEN Drop(f, slash + 1) ELSE f

\* the loop of lines 257-262 from rule i on: the level of the first rule
\* that matches, 0 (line 263) when it runs to its end
RECURSIVE scanFilter(_, _, _)
scanFilter(filter, i, file) ==
    IF i > Len(filter) THEN 0
    ELSE IF match(filter[i], file) THEN filter[i].level
    ELSE scanFilter(filter, i + 1, file)

\* the same loop without the return of line 260: the last match wins
RECURSIVE scanFilter_last(_, _, _)
scanFilter_last(filter, i, file) ==
    IF i > Len(filter) THEN 0
    ELSE LET rest == scanFilter_last(filter, i + 1, file)
         IN  IF rest # 0 THEN rest
             ELSE IF match(filter[i], file) THEN filter[i].level ELSE 0

filterLevel_last(filter, file) == scanFilter_last(filter, 1, file)
filterLevel(filter, file) == scanFilter(filter, 1, file)

(***************************************************************************)
(* The inputs of the model.                                                *)
(***************************************************************************)
\* the values Set is called with: "a*=1,abc=5", "abc=2", "" and "ab"
SpecGlobFirst == << "a", "*", "=", "1", ",", "a", "b", "c", "=", "5" >>
SpecLiteral   == << "a", "b", "c", "=", "2" >>
SpecEmpty     == << >>
SpecNoEquals  == << "a", "b" >>

Specs == { SpecGlobFirst, SpecLiteral, SpecEmpty, SpecNoEquals }

\* the call sites (the program counters runtime.Callers reports) and the
\* file runtime.FuncForPC(pc).FileLine(pc) names for each: "/d/abc.go" and
\* "ab.go"
Sites == { 1, 2 }

FileLine(site) ==
    IF site = 1 THEN << "/", "d", "/", "a", "b", "c", ".", "g", "o" >>
    ELSE << "a", "b", ".", "g", "o" >>

(***************************************************************************)
(* The state.                                                              *)
(***************************************************************************)
VARIABLES
    vModuleMu,      \* global.vModuleMu: TRUE when the mutex is locked
    vModuleFilter,  \* global.vModuleFilter: a sequence of modulePat
    vModuleCache,   \* global.vModuleCache: a function from call sites to levels
    cacheNil,       \* TRUE while global.vModuleCache is the nil map
    innerValue,     \* the string the wrapped flag m.inner holds
    pc,             \* where each goroutine is
    site,           \* V, vmoduleGet: pcs[0], the call site (0: none)
    level,          \* V: the requested level
    enabled,        \* V: the answer of klogv2.V(level).Enabled(), line 225
    ok,             \* vmoduleGet: the ok of line 244, TRUE on a cache hit
    verbosity,      \* vmoduleGet: the level it returns; V: the level it got
    result,         \* V: the Verbose it returns
    value,          \* Set: its argument
    filter,         \* Set: its local filter
    err,            \* Set: TRUE when it returns an error
    okFilters,      \* history: per goroutine in vmoduleGet, the Filter Sets that
                    \*   were global.vModuleFilter at some time since it was called
    resolveCount,   \* history: per site, the misses (file-name resolutions
                    \*   and filter scans) since the cache was last replaced
    lastSpec,       \* history: the value of the Set that last replaced the
                    \*   Filter Set, as a set: {} before the first
    repeated,       \* history: TRUE when the Set that last replaced the Filter
                    \*   Set had the value of the one that replaced it before
    inSegs,         \* one Set on its own: the segments of its value
    ppc,            \* one Set on its own: where it is
    outFilter,      \* one Set on its own: the filter it built
    outLevels,      \* one Set on its own: what vmoduleGet returns afterwards,
                    \*   per file name
    mPattern,       \* one match on its own: the pattern of the rule
    mFile,          \* one match on its own: the candidate file name
    mResult,        \* one match on its own: {} before, { its answer } after
    rRooted,        \* one resolution on its own: TRUE when the path starts with /
    rDirs,          \* one resolution on its own: the directories of the path
    rFile,          \* one resolution on its own: the last component of the path
    rName,          \* one resolution on its own: {} before, { the name } after
    call,           \* forwarding: the last call of a forwarding function
    records,        \* forwarding: the records the engine has logged
    status,         \* forwarding: "running", "exited" or "panicked"
    stdLogTo,       \* forwarding: the severity the standard log is copied to
    panicValue      \* forwarding: the value of the panic

vars == << vModuleMu, vModuleFilter, vModuleCache, cacheNil, innerValue, pc, site,
           level, enabled, ok, verbosity, result, value, filter, err, okFilters, resolveCount,
           lastSpec, repeated, inSegs, ppc, outFilter, outLevels, mPattern, mFile,
           mResult, rRooted, rDirs, rFile, rName,
           call, records, status, stdLogTo, panicValue >>

shared == << vModuleMu, vModuleFilter, vModuleCache, cacheNil >>
updates == << lastSpec, repeated >>
history == << okFilters, resolveCount, updates >>
vLocals == << site, level, enabled, ok, verbosity, result >>
parseVars == << inSegs, ppc, outFilter, outLevels >>
matchVars == << mPattern, mFile, mResult >>
resolveVars == << rRooted, rDirs, rFile, rName >>
shimVars == << call, records, status, stdLogTo, panicValue >>
setLocals == << value, filter, err >>

\* the state of the filter and of the goroutines that use it
filterVars == << shared, innerValue, pc, vLocals, setLocals, history >>

\* the goroutines inside vmoduleGet
InGet(t) == pc[t] \in { "getLock", "getLookup", "getStore", "getUnlock", "getPanic" }

\* no Set is looked at on its own
ParseIdle ==
    /\ inSegs = << >>
    /\ ppc = "none"
    /\ outFilter = << >>
    /\ outLevels = << >>

\* no match is looked at on its own
MatchIdle ==
    /\ mPattern = << >>
    /\ mFile = << >>
    /\ mResult = {}

\* no resolution is looked at on its own
ResolveIdle ==
    /\ rRooted = FALSE
    /\ rDirs = << >>
    /\ rFile = << >>
    /\ rName = {}

\* no forwarding function has been called
ShimIdle ==
    /\ call = [fn |-> "none", severity |-> "", variant |-> "", depth |-> 0, frames |-> 0,
                v |-> FALSE, name |-> "", before |-> 0]
    /\ records = << >>
    /\ status = "running"
    /\ stdLogTo = ""
    /\ panicValue = << >>

\* the filter before the first Set, no goroutine in V or Set
FilterInit ==
    /\ vModuleMu = FALSE
    /\ vModuleFilter = << >>
    /\ vModuleCache = << >>
    /\ cacheNil = TRUE
    /\ innerValue = << >>
    /\ pc = [t \in Procs |-> "idle"]
    /\ site = [t \in Procs |-> 0]
    /\ level = [t \in Procs |-> 0]
    /\ enabled = [t \in Procs |-> FALSE]
    /\ ok = [t \in Procs |-> FALSE]
    /\ verbosity = [t \in Procs |-> 0]
    /\ result = [t \in Procs |-> FALSE]
    /\ value = [t \in Procs |-> << >>]
    /\ filter = [t \in Procs |-> << >>]
    /\ err = [t \in Procs |-> FALSE]
    /\ okFilters = [t \in Procs |-> {}]
    /\ resolveCount = [s \in Sites |-> 0]
    /\ lastSpec = {}
    /\ repeated = FALSE

Init ==
    /\ FilterInit
    /\ ParseIdle
    /\ MatchIdle
    /\ ResolveIdle
    /\ ShimIdle

(***************************************************************************)
(* sync.Mutex, the map and the comparison of V.                            *)
(***************************************************************************)
\* Lock returns only when the mutex is unlocked
lockFree_open(mu) == TRUE
lockFree(mu) == ~mu

\* make(map[uintptr]Level), line 153: the new cache holds nothing of the old
makeCache_keep(old) == old
makeCache(old) == << >>

\* v, ok := global.vModuleCache[pc], line 244 (a read of the nil map finds nothing)
cacheHit_never(cache, p) == FALSE
cacheHit(cache, p) == p \in DOMAIN cache

\* global.vModuleCache[pc] = l on a fresh map: the other entries are lost
cachePut_alone(cache, p, l) == [q \in {p} |-> l]

\* global.vModuleCache[pc] = l
cachePut(cache, p, l) == [q \in DOMAIN cache \cup {p} |-> IF q = p THEN l ELSE cache[q]]

\* if klogv2.V(level).Enabled(), line 225: V returns true at once
shortCircuit_never(e) == FALSE
shortCircuit(e) == e

\* if err != nil, line 132: Set returns the error at once
returnsError_never(e) == FALSE
returnsError(e) == e

\* Verbose(verbosity >= level), line 235
Verbose_strict(v, l) == v > l
Verbose(v, l) == v >= l

(***************************************************************************)
(* V, lines 224-236, and vmoduleGet, lines 241-265.                        *)
(***************************************************************************)
\* V is called at call site s with level l.  enabled is the answer of the
\* engine's klogv2.V(level).Enabled(); when it is true V returns at line 226
\* before it asks for its caller.  runtime.Callers(2, ...) finds the caller
\* of V: every Go function has one, so the count is never 0.
V_call(t) ==
    /\ pc[t] = "idle"
    /\ \E s \in Sites, l \in Levels, e \in BOOLEAN :
          /\ level' = [level EXCEPT ![t] = l]
          /\ enabled' = [enabled EXCEPT ![t] = e]
          /\ IF shortCircuit(e)
             THEN /\ pc' = [pc EXCEPT ![t] = "vTrue"]
                  /\ result' = [result EXCEPT ![t] = TRUE]
                  /\ UNCHANGED << site, okFilters >>
             ELSE /\ pc' = [pc EXCEPT ![t] = "getLock"]
                  /\ site' = [site EXCEPT ![t] = s]
                  /\ okFilters' = [okFilters EXCEPT ![t] = {vModuleFilter}]
                  /\ UNCHANGED result
    /\ UNCHANGED << shared, innerValue, ok, verbosity, setLocals, resolveCount, updates >>
    /\ UNCHANGED << parseVars, matchVars, resolveVars, shimVars >>

\* global.vModuleMu.Lock(), line 242
vmoduleGet_lock(t) ==
    /\ pc[t] = "getLock"
    /\ lockFree(vModuleMu)
    /\ vModuleMu' = TRUE
    /\ pc' = [pc EXCEPT ![t] = "getLookup"]
    /\ UNCHANGED << vModuleFilter, vModuleCache, cacheNil, innerValue, vLocals,
                    setLocals, history >>
    /\ UNCHANGED << parseVars, matchVars, resolveVars, shimVars >>

\* lines 244-246: the call site is in the cache
vmoduleGet_hit(t) ==
    /\ pc[t] = "getLookup"
    /\ cacheHit(vModuleCache, site[t])
    /\ ok' = [ok EXCEPT ![t] = TRUE]
    /\ verbosity' = [verbosity EXCEPT ![t] = vModuleCache[site[t]]]
    /\ pc' = [pc EXCEPT ![t] = "getUnlock"]
    /\ UNCHANGED << shared, innerValue, site, level, enabled, result, setLocals,
                    history >>
    /\ UNCHANGED << parseVars, matchVars, resolveVars, shimVars >>

\* lines 248-258 and 262: the call site is not in the cache; its file name
\* is resolved and matched against the rules of the filter
vmoduleGet_miss(t) ==
    /\ pc[t] = "getLookup"
    /\ ~cacheHit(vModuleCache, site[t])
    /\ ok' = [ok EXCEPT ![t] = FALSE]
    /\ verbosity' = [verbosity EXCEPT ![t] =
                         filterLevel(vModuleFilter, baseName(FileLine(site[t])))]
    /\ pc' = [pc EXCEPT ![t] = "getStore"]
    /\ resolveCount' = [resolveCount EXCEPT
                           ![site[t]] = IF @ < ResolveCap THEN @ + 1 ELSE @]
    /\ UNCHANGED << shared, innerValue, site, level, enabled, result, setLocals,
                    okFilters, updates >>
    /\ UNCHANGED << parseVars, matchVars, resolveVars, shimVars >>

\* lines 259 and 263: the level is stored in the cache; the store into the
\* nil map panics
vmoduleGet_store(t) ==
    /\ pc[t] = "getStore"
    /\ IF cacheNil
       THEN /\ pc' = [pc EXCEPT ![t] = "getPanic"]
            /\ UNCHANGED vModuleCache
       ELSE /\ vModuleCache' = cachePut(vModuleCache, site[t], verbosity[t])
            /\ pc' = [pc EXCEPT ![t] = "getUnlock"]
    /\ UNCHANGED << vModuleMu, vModuleFilter, cacheNil, innerValue, vLocals,
                    setLocals, history >>
    /\ UNCHANGED << parseVars, matchVars, resolveVars, shimVars >>

\* the deferred Unlock of line 243 and lines 234-235 of V
vmoduleGet_unlock(t) ==
    /\ pc[t] = "getUnlock"
    /\ vModuleMu' = FALSE
    /\ result' = [result EXCEPT ![t] = Verbose(verbosity[t], level[t])]
    /\ pc' = [pc EXCEPT ![t] = "vRet"]
    /\ UNCHANGED << vModuleFilter, vModuleCache, cacheNil, innerValue, site, level,
                    enabled, ok, verbosity, setLocals, history >>
    /\ UNCHANGED << parseVars, matchVars, resolveVars, shimVars >>

\* the deferred Unlock of line 243 while the panic unwinds; the frames of
\* vmoduleGet and V are gone and the goroutine does not return to its caller
vmoduleGet_unwind(t) ==
    /\ pc[t] = "getPanic"
    /\ vModuleMu' = FALSE
    /\ pc' = [pc EXCEPT ![t] = "panicked"]
    /\ site' = [site EXCEPT ![t] = 0]
    /\ level' = [level EXCEPT ![t] = 0]
    /\ ok' = [ok EXCEPT ![t] = FALSE]
    /\ verbosity' = [verbosity EXCEPT ![t] = 0]
    /\ okFilters' = [okFilters EXCEPT ![t] = {}]
    /\ UNCHANGED << vModuleFilter, vModuleCache, cacheNil, innerValue, enabled,
                    result, setLocals, resolveCount, updates >>
    /\ UNCHANGED << parseVars, matchVars, resolveVars, shimVars >>

\* the caller has the Verbose
V_return(t) ==
    /\ pc[t] \in { "vTrue", "vRet" }
    /\ pc' = [pc EXCEPT ![t] = "idle"]
    /\ site' = [site EXCEPT ![t] = 0]
    /\ level' = [level EXCEPT ![t] = 0]
    /\ enabled' = [enabled EXCEPT ![t] = FALSE]
    /\ ok' = [ok EXCEPT ![t] = FALSE]
    /\ verbosity' = [verbosity EXCEPT ![t] = 0]
    /\ result' = [result EXCEPT ![t] = FALSE]
    /\ okFilters' = [okFilters EXCEPT ![t] = {}]
    /\ UNCHANGED << shared, innerValue, setLocals, resolveCount, updates >>
    /\ UNCHANGED << parseVars, matchVars, resolveVars, shimVars >>

(***************************************************************************)
(* vmoduleValue.Set, lines 131-155.                                        *)
(***************************************************************************)
\* lines 132-134: the wrapped flag of the engine is set first; it is any
\* flag.Value, so it may accept the value or reject it with an error
Set_inner(t) ==
    /\ pc[t] = "idle"
    /\ \E v \in Specs, accepted \in BOOLEAN :
          /\ value' = [value EXCEPT ![t] = v]
          /\ innerValue' = IF accepted THEN v ELSE innerValue
          /\ err' = [err EXCEPT ![t] = ~accepted]
          /\ pc' = [pc EXCEPT ![t] = IF returnsError(~accepted) THEN "setRet"
                                     ELSE "setParse"]
    /\ UNCHANGED << shared, vLocals, filter, history >>
    /\ UNCHANGED << parseVars, matchVars, resolveVars, shimVars >>

\* lines 135-149: the value is parsed into the local filter, before the
\* mutex is taken; the index out of range of line 143 panics, and the
\* goroutine does not return to its caller
Set_parse(t) ==
    /\ pc[t] = "setParse"
    /\ LET parsed == parseSpec(value[t])
       IN  IF parsed.panic
           THEN /\ pc' = [pc EXCEPT ![t] = "panicked"]
                /\ value' = [value EXCEPT ![t] = << >>]
                /\ UNCHANGED filter
           ELSE /\ filter' = [filter EXCEPT ![t] = parsed.filter]
                /\ pc' = [pc EXCEPT ![t] = "setLock"]
                /\ UNCHANGED value
    /\ UNCHANGED << shared, innerValue, vLocals, err, history >>
    /\ UNCHANGED << parseVars, matchVars, resolveVars, shimVars >>

\* global.vModuleMu.Lock(), line 150
Set_lock(t) ==
    /\ pc[t] = "setLock"
    /\ lockFree(vModuleMu)
    /\ vModuleMu' = TRUE
    /\ pc' = [pc EXCEPT ![t] = "setFilter"]
    /\ UNCHANGED << vModuleFilter, vModuleCache, cacheNil, innerValue, vLocals,
                    setLocals, history >>
    /\ UNCHANGED << parseVars, matchVars, resolveVars, shimVars >>

\* global.vModuleFilter = filter, line 152
Set_filter(t) ==
    /\ pc[t] = "setFilter"
    /\ vModuleFilter' = filter[t]
    /\ pc' = [pc EXCEPT ![t] = "setCache"]
    /\ okFilters' = [u \in Procs |->
                        IF InGet(u) THEN okFilters[u] \cup {filter[t]} ELSE okFilters[u]]
    /\ lastSpec' = { value[t] }
    /\ repeated' = (lastSpec = { value[t] })
    /\ UNCHANGED << vModuleMu, vModuleCache, cacheNil, innerValue, vLocals,
                    setLocals, resolveCount >>
    /\ UNCHANGED << parseVars, matchVars, resolveVars, shimVars >>

\* global.vModuleCache = make(map[uintptr]Level), line 153
Set_cache(t) ==
    /\ pc[t] = "setCache"
    /\ vModuleCache' = makeCache(vModuleCache)
    /\ cacheNil' = FALSE
    /\ pc' = [pc EXCEPT ![t] = "setUnlock"]
    /\ resolveCount' = [s \in Sites |-> 0]
    /\ UNCHANGED << vModuleMu, vModuleFilter, innerValue, vLocals, setLocals,
                    okFilters, updates >>
    /\ UNCHANGED << parseVars, matchVars, resolveVars, shimVars >>

\* the deferred Unlock of line 151, at the return of line 154
Set_unlock(t) ==
    /\ pc[t] = "setUnlock"
    /\ vModuleMu' = FALSE
    /\ pc' = [pc EXCEPT ![t] = "setRet"]
    /\ UNCHANGED << vModuleFilter, vModuleCache, cacheNil, innerValue, vLocals,
                    setLocals, history >>
    /\ UNCHANGED << parseVars, matchVars, resolveVars, shimVars >>

\* the caller has the error or nil
Set_return(t) ==
    /\ pc[t] = "setRet"
    /\ pc' = [pc EXCEPT ![t] = "idle"]
    /\ value' = [value EXCEPT ![t] = << >>]
    /\ filter' = [filter EXCEPT ![t] = << >>]
    /\ err' = [err EXCEPT ![t] = FALSE]
    /\ UNCHANGED << shared, innerValue, vLocals, history >>
    /\ UNCHANGED << parseVars, matchVars, resolveVars, shimVars >>

Next ==
    \E t \in Procs :
        \/ V_call(t)
        \/ vmoduleGet_lock(t)
        \/ vmoduleGet_hit(t)
        \/ vmoduleGet_miss(t)
        \/ vmoduleGet_store(t)
        \/ vmoduleGet_unlock(t)
        \/ vmoduleGet_unwind(t)
        \/ V_return(t)
        \/ Set_inner(t)
        \/ Set_parse(t)
        \/ Set_lock(t)
        \/ Set_filter(t)
        \/ Set_cache(t)
        \/ Set_unlock(t)
        \/ Set_return(t)

Spec == Init /\ [][Next]_vars

(***************************************************************************)
(* One Set on its own (lines 131-155), for values made of up to MaxSegs    *)
(* segments joined by commas, and the Gets that follow it.                 *)
(***************************************************************************)
\* the segments: "", "a*=1", "abc=2", "abc=0", "abc=b", "abc=2b", "ab",
\* "abc=-1", "abc=2147483648" (2^31) and "[a=3" (an unterminated class)
SegEmpty      == << >>
SegGlob       == << "a", "*", "=", "1" >>
SegLiteral    == << "a", "b", "c", "=", "2" >>
SegZero       == << "a", "b", "c", "=", "0" >>
SegNotNumeric == << "a", "b", "c", "=", "b" >>
SegDigitsJunk == << "a", "b", "c", "=", "2", "b" >>
SegNoEquals   == << "a", "b" >>
SegNegative   == << "a", "b", "c", "=", "-", "1" >>
SegOverflow   == << "a", "b", "c", "=", "2", "1", "4", "7", "4", "8", "3", "6", "4", "8" >>
SegBadGlob    == << "[", "a", "=", "3" >>

Segments == { SegEmpty, SegGlob, SegLiteral, SegZero, SegNotNumeric, SegDigitsJunk,
              SegNoEquals, SegNegative, SegOverflow, SegBadGlob }

\* the file names vmoduleGet is asked about after the Set: "abc", "ab" and
\* "[a" (the file names of /d/abc.go, ab.go and [a.go)
NameAbc == << "a", "b", "c" >>
NameAb == << "a", "b" >>
NameBracket == << "[", "a" >>

ProbeNames == { NameAbc, NameAb, NameBracket }

\* the values have at most MaxSegs segments
MaxSegs == 3

SegLists == UNION { [1..n -> Segments] : n \in 0..MaxSegs }

\* strings.Join(segs, sep): the value whose segments are segs
RECURSIVE Join(_, _)
Join(segs, sep) ==
    IF Len(segs) = 0 THEN << >>
    ELSE IF Len(segs) = 1 THEN segs[1]
    ELSE segs[1] \o << sep >> \o Join(Tail(segs), sep)

ParseInit ==
    /\ FilterInit
    /\ MatchIdle
    /\ ResolveIdle
    /\ ShimIdle
    /\ inSegs \in SegLists
    /\ ppc = "start"
    /\ outFilter = << >>
    /\ outLevels = << >>

\* lines 132-134: the wrapped flag of the engine accepts the value or
\* rejects it; Set returns its error
SetAlone_inner ==
    /\ ppc = "start"
    /\ \E accepted \in BOOLEAN :
          ppc' = IF accepted THEN "parse" ELSE "rejected"
    /\ UNCHANGED << inSegs, outFilter, outLevels, filterVars, matchVars, resolveVars, shimVars >>

\* lines 135-154: the loop over the segments panics, or builds the filter
\* that the lines 150-153 make the Filter Set, and Set returns nil
SetAlone_parse ==
    /\ ppc = "parse"
    /\ LET parsed == parseSpec(Join(inSegs, ","))
       IN  IF parsed.panic
           THEN /\ ppc' = "panicked"
                /\ UNCHANGED outFilter
           ELSE /\ ppc' = "done"
                /\ outFilter' = parsed.filter
    /\ UNCHANGED << inSegs, outLevels, filterVars, matchVars, resolveVars, shimVars >>

\* lines 250-264 after the Set: vmoduleGet scans the new Filter Set for the
\* file name of each call site
GetAlone ==
    /\ ppc = "done"
    /\ ppc' = "got"
    /\ outLevels' = [f \in ProbeNames |-> filterLevel(outFilter, f)]
    /\ UNCHANGED << inSegs, outFilter, filterVars, matchVars, resolveVars, shimVars >>

ParseNext ==
    \/ SetAlone_inner
    \/ SetAlone_parse
    \/ GetAlone

ParseSpec == ParseInit /\ [][ParseNext]_vars

(***************************************************************************)
(* One match on its own (lines 114-120): a rule made of a pattern as Set   *)
(* makes it (line 148), and a candidate file name as vmoduleGet passes it. *)
(***************************************************************************)
\* the patterns: those of the documentation and of vGlobs, literals, and
\* l\ake with an escaped character
GlobGopher == << "g", "o", "p", "h", "e", "r", "*" >>
GlobSecondL == << "?", "l", "*" >>
GlobAll == << "*" >>
GlobFifthUnderscore == << "?", "?", "?", "?", "_", "*" >>
GlobClass == << "?", "?", "[", "m", "n", "o", "]", "?", "_", "*", "t" >>
GlobEndsX == << "*", "x" >>
GlobStartsM == << "m", "*" >>
GlobThirdUnderscore == << "?", "?", "_", "*" >>
GlobClassAbc == << "?", "[", "a", "b", "c", "]", "?", "_", "*", "t" >>
GlobStartsL == << "l", "*" >>
GlobEndsE == << "*", "e" >>
LitKlogTest == << "k", "l", "o", "g", "_", "t", "e", "s", "t" >>
LitFlake == << "f", "l", "a", "k", "e" >>
LitLake == << "l", "a", "k", "e" >>
LitGopher == << "g", "o", "p", "h", "e", "r" >>
GlobEscaped == << "l", "\\", "a", "k", "e" >>

Patterns == { GlobGopher, GlobSecondL, GlobAll, GlobFifthUnderscore, GlobClass,
              GlobEndsX, GlobStartsM, GlobThirdUnderscore, GlobClassAbc, GlobStartsL,
              GlobEndsE, LitKlogTest, LitFlake, LitLake, LitGopher, GlobEscaped }

\* the file names: "gopherflakes", "thegopher", "flake", "lake", "klog_test"
FileGopherflakes == << "g", "o", "p", "h", "e", "r", "f", "l", "a", "k", "e", "s" >>
FileThegopher == << "t", "h", "e", "g", "o", "p", "h", "e", "r" >>
FileFlake == << "f", "l", "a", "k", "e" >>
FileLake == << "l", "a", "k", "e" >>
FileKlogTest == << "k", "l", "o", "g", "_", "t", "e", "s", "t" >>

FileNames == { FileGopherflakes, FileThegopher, FileFlake, FileLake, FileKlogTest }

MatchInit ==
    /\ FilterInit
    /\ ParseIdle
    /\ ResolveIdle
    /\ ShimIdle
    /\ mPattern \in Patterns
    /\ mFile \in FileNames
    /\ mResult = {}

\* the rule of line 148 for the pattern, and filter.match(file), line 258
match_call ==
    /\ mResult = {}
    /\ mResult' = { match(modulePat(mPattern, isLiteral(mPattern), 1), mFile) }
    /\ UNCHANGED << mPattern, mFile, filterVars, parseVars, resolveVars, shimVars >>

MatchNext == match_call

MatchSpec == MatchInit /\ [][MatchNext]_vars

(***************************************************************************)
(* One resolution of the file name on its own (lines 248-256), for paths   *)
(* of up to MaxDirs directories.                                           *)
(***************************************************************************)
\* the directories: "d" and "a.go"
DirD == << "d" >>
DirDotGo == << "a", ".", "g", "o" >>

DirNames == { DirD, DirDotGo }

\* the last components: "abc.go", "abc", "a.go.go", ".go" and "go"
LastAbcGo == << "a", "b", "c", ".", "g", "o" >>
LastAbc == << "a", "b", "c" >>
LastAGoGo == << "a", ".", "g", "o", ".", "g", "o" >>
LastDotGo == << ".", "g", "o" >>
LastGo == << "g", "o" >>

LastNames == { LastAbcGo, LastAbc, LastAGoGo, LastDotGo, LastGo }

\* the paths have at most MaxDirs directories
MaxDirs == 2

DirLists == UNION { [1..n -> DirNames] : n \in 0..MaxDirs }

\* the path FileLine reports: the directories and the last component with
\* '/' between them, after a '/' when the path is rooted
PathOf(rooted, dirs, last) ==
    (IF rooted THEN << "/" >> ELSE << >>) \o Join(Append(dirs, last), "/")

ResolveInit ==
    /\ FilterInit
    /\ ParseIdle
    /\ MatchIdle
    /\ ShimIdle
    /\ rRooted \in BOOLEAN
    /\ rDirs \in DirLists
    /\ rFile \in LastNames
    /\ rName = {}

\* lines 248-256: the name vmoduleGet matches against the rules
resolve_call ==
    /\ rName = {}
    /\ rName' = { baseName(PathOf(rRooted, rDirs, rFile)) }
    /\ UNCHANGED << rRooted, rDirs, rFile, filterVars, parseVars, matchVars, shimVars >>

ResolveNext == resolve_call

ResolveSpec == ResolveInit /\ [][ResolveNext]_vars

(***************************************************************************)
(* The forwarding functions (lines 195-204 and 267-415) and what they ask  *)
(* of the engine, klogv2.  The engine is not part of this repository: its  *)
(* functions are modelled as the comments of the forwarding functions and  *)
(* the tests describe them.  A goroutine's stack is the sequence of its    *)
(* frames, the outermost first: the frames 1..n of the program, then the   *)
(* frame of the forwarding function that calls the engine.                 *)
(***************************************************************************)
\* the program's stacks have at most MaxFrames frames
MaxFrames == 3
\* the depths XDepth is called with are 0..MaxDepth
MaxDepth == 3
\* the engine logs at most MaxRecords records
MaxRecords == 2

\* the frame of a forwarding function, and the frame "???" the engine names
\* when the stack has no frame at the depth asked for
ShimFrame == 0
UnknownFrame == -1

\* the families of forwarding functions: Info, Infoln, Infof, InfoDepth, ...
Families == { "Info", "Warning", "Error", "Fatal", "Exit" }
\* the variants of each: X, Xln, Xf (fmt.Sprint, fmt.Sprintln, fmt.Sprintf)
Variants == { "", "ln", "f" }

\* the engine's severity names (lines 200-201)
SeverityNames == { "INFO", "WARNING", "ERROR", "FATAL" }
\* the names CopyStandardLogTo is called with; "LOG" is the one of
\* TestCopyStandardLogToPanic
CopyNames == SeverityNames \cup { "LOG", "DEBUG" }

\* the log of the engine function each family calls: klogv2.InfoDepth,
\* WarningDepth, ErrorDepth, FatalDepth; ExitDepth logs to the FATAL log
engineSeverity(family) ==
    CASE family = "Info" -> "INFO"
      [] family = "Warning" -> "WARNING"
      [] family = "Error" -> "ERROR"
      [] family = "Fatal" -> "FATAL"
      [] family = "Exit" -> "FATAL"

\* klogv2.FatalDepth ends the process with os.Exit(255), klogv2.ExitDepth
\* with os.Exit(1) (lines 363-364 and 394)
engineStatus(family) ==
    CASE family = "Fatal" -> "exit255"
      [] family = "Exit" -> "exit1"
      [] OTHER -> "running"

\* klogv2.XDepth(depth, ...) called on the stack: the frame of depth 0 is
\* the caller of the engine function, the frame of depth d the one d frames
\* above it
engineFrame(stack, depth) ==
    IF depth < Len(stack) THEN stack[Len(stack) - depth] ELSE UnknownFrame

\* klogv2.CopyStandardLogTo(name): panics when the name is not recognized,
\* with a message that quotes it
engineCopyPanics(name) == name \notin SeverityNames
enginePanicValue(name) ==
    << "log.CopyStandardLogTo(", name, "): unrecognized severity name" >>

\* the stack of a call of a forwarding function from a program n frames deep
shimStack(n) == [i \in 1..(n + 1) |-> IF i <= n THEN i ELSE ShimFrame]

\* the depth X, Xln and Xf pass to the engine (lines 294, 306, 312, ...)
plainDepth == 1

\* the depth XDepth(depth, ...) passes to the engine (lines 300, 324, 348,
\* 373, 403)
shimDepth_same(depth) == depth
shimDepth(depth) == depth + 1

\* the guard of Verbose.Info, Infoln and Infof (lines 270, 278, 286)
verboseGuard_open(v) == TRUE
verboseGuard(v) == v

\* the name CopyStandardLogTo passes to the engine (line 203)
copyName_info(name) == "INFO"
copyName(name) == name

\* the engine logs one record and, for Fatal and Exit, ends the process
engineLog(family, n, depth) ==
    /\ records' = Append(records, [severity |-> engineSeverity(family),
                                   frame |-> engineFrame(shimStack(n), depth)])
    /\ status' = engineStatus(family)

TheCall(fn, family, variant, depth, n, v, name) ==
    [fn |-> fn, severity |-> family, variant |-> variant, depth |-> depth, frames |-> n,
     v |-> v, name |-> name, before |-> Len(records)]

\* Info, Infoln, Infof, Warning, ..., Exitf (lines 293-295, 305-313, ...)
X_call ==
    /\ status = "running"
    /\ Len(records) < MaxRecords
    /\ \E family \in Families, variant \in Variants, n \in 1..MaxFrames :
          /\ call' = TheCall("X", family, variant, 0, n, FALSE, "")
          /\ engineLog(family, n, plainDepth)
    /\ UNCHANGED << stdLogTo, panicValue, filterVars, parseVars, matchVars, resolveVars >>

\* InfoDepth, WarningDepth, ErrorDepth, FatalDepth, ExitDepth (lines
\* 299-301, 323-325, 347-349, 372-374, 402-404)
XDepth_call ==
    /\ status = "running"
    /\ Len(records) < MaxRecords
    /\ \E family \in Families, depth \in 0..MaxDepth, n \in 1..MaxFrames :
          /\ call' = TheCall("XDepth", family, "", depth, n, FALSE, "")
          /\ engineLog(family, n, shimDepth(depth))
    /\ UNCHANGED << stdLogTo, panicValue, filterVars, parseVars, matchVars, resolveVars >>

\* Verbose.Info, Verbose.Infoln, Verbose.Infof (lines 269-289)
Verbose_Info ==
    /\ status = "running"
    /\ Len(records) < MaxRecords
    /\ \E v \in BOOLEAN, variant \in Variants, n \in 1..MaxFrames :
          /\ call' = TheCall("Verbose", "Info", variant, 0, n, v, "")
          /\ IF verboseGuard(v)
             THEN engineLog("Info", n, plainDepth)
             ELSE UNCHANGED << records, status >>
    /\ UNCHANGED << stdLogTo, panicValue, filterVars, parseVars, matchVars, resolveVars >>

\* CopyStandardLogTo (lines 202-204): the panic of the engine is not
\* recovered, it unwinds the caller
CopyStandardLogTo ==
    /\ status = "running"
    /\ \E name \in CopyNames :
          /\ call' = TheCall("CopyStandardLogTo", "", "", 0, 0, FALSE, name)
          /\ IF engineCopyPanics(copyName(name))
             THEN /\ status' = "panicked"
                  /\ panicValue' = enginePanicValue(copyName(name))
                  /\ UNCHANGED stdLogTo
             ELSE /\ stdLogTo' = copyName(name)
                  /\ UNCHANGED << status, panicValue >>
    /\ UNCHANGED << records, filterVars, parseVars, matchVars, resolveVars >>

ShimNext ==
    \/ X_call
    \/ XDepth_call
    \/ Verbose_Info
    \/ CopyStandardLogTo

ShimSpec == Init /\ [][ShimNext]_vars

(***************************************************************************)
(* The properties.                                                         *)
(***************************************************************************)
\* the file name each call site is matched under
SiteFiles == [s \in Sites |-> baseName(FileLine(s))]

SiteFile(s) == SiteFiles[s]

\* rule i of the filter f matches the file name of site s
RuleMatches(f, i, s) == match(f[i], SiteFile(s))

\* rule i of the filter f is the first rule of f that matches the file name
\* of site s
IsFirstRule(f, i, s) ==
    /\ RuleMatches(f, i, s)
    /\ \A j \in 1..(i - 1) : ~RuleMatches(f, j, s)

\* the level the filter f assigns to the file name of site s: that of its
\* first matching rule, 0 when no rule matches
Assigns(f, s, l) ==
    \/ \E i \in 1..Len(f) : IsFirstRule(f, i, s) /\ l = f[i].level
    \/ (\A i \in 1..Len(f) : ~RuleMatches(f, i, s)) /\ l = 0

\* goroutine t has the level vmoduleGet returned
GetDone(t) == pc[t] \in { "getUnlock", "vRet" }

\* no Set replaced the Filter Set by another one since goroutine t called
\* vmoduleGet: the Filter Set it ran under is the current one
Undisturbed(t) == okFilters[t] = { vModuleFilter }

C2_FirstMatchWins ==
    \A t \in Procs :
        GetDone(t)
        => \E f \in okFilters[t] :
               \A i \in 1..Len(f) :
                   IsFirstRule(f, i, site[t])
                   => verbosity[t] = f[i].level

\* C2 witness: Get has returned the level of the first matching rule while a
\* later rule matches the same file with a higher level
C2_Witness ==
    \E t \in Procs :
        /\ GetDone(t)
        /\ Undisturbed(t)
        /\ \E i, k \in 1..Len(vModuleFilter) :
               /\ IsFirstRule(vModuleFilter, i, site[t])
               /\ i < k
               /\ RuleMatches(vModuleFilter, k, site[t])
               /\ vModuleFilter[k].level > vModuleFilter[i].level
               /\ verbosity[t] = vModuleFilter[i].level

\* the Get of goroutine u returned, and left its site in the cache, under
\* a Filter Set that an Update has replaced since
ResolvedBeforeUpdate(u) ==
    /\ pc[u] = "vRet"
    /\ okFilters[u] # { vModuleFilter }

\* C3: invalidation: when a call site was resolved and cached, an Update
\* then replaced the Filter Set, and the call site is resolved again, the
\* second Get returns the level the new Filter Set assigns to the site's
\* file name, not the level cached under the previous one.
C3_UpdateInvalidates ==
    \A t, u \in Procs :
        (/\ ResolvedBeforeUpdate(u)
         /\ GetDone(t)
         /\ Undisturbed(t)
         /\ site[t] = site[u])
        => Assigns(vModuleFilter, site[t], verbosity[t])

\* C3 witness: the second Get has returned a level (above 0) other than the
\* one the first Get had cached for the site
C3_Witness ==
    \E t, u \in Procs :
        /\ ResolvedBeforeUpdate(u)
        /\ verbosity[u] > 0
        /\ pc[t] = "vRet"
        /\ Undisturbed(t)
        /\ site[t] = site[u]
        /\ verbosity[t] > 0
        /\ verbosity[t] # verbosity[u]

\* every entry of the cache is the level the filter assigns to its site
CacheMatchesFilter ==
    \A s \in DOMAIN vModuleCache :
        Assigns(vModuleFilter, s, vModuleCache[s])

\* goroutine t is between its Lock and its Unlock of global.vModuleMu
InCriticalSection(t) ==
    pc[t] \in { "getLookup", "getStore", "getUnlock", "getPanic",
                "setFilter", "setCache", "setUnlock" }

\* C4: in every state that an interleaving of Get and Update calls can
\* show to any of them (every state but the one inside the critical section
\* of an Update, after line 152 and before line 153), each entry of the
\* Call-Site Cache is the level the current Filter Set assigns (first match,
\* else 0) to the file name of its call site: no entry computed against an
\* earlier Filter Set survives an Update.
C4_CacheMatchesCurrentFilter ==
    (\A t \in Procs : pc[t] # "setCache") => CacheMatchesFilter

\* C4 witness: after an Update threw away an entry that the new Filter Set
\* contradicts, the cache has entries again
C4_Witness ==
    /\ \A t \in Procs : pc[t] # "setCache"
    /\ \E u \in Procs : ResolvedBeforeUpdate(u) /\ verbosity[u] > 0
    /\ \E s \in DOMAIN vModuleCache : vModuleCache[s] > 0

\* C5 (the claim as stated; the code violates it): before any Update, a Get
\* on any call site completes normally, returns level 0 and leaves the
\* call site cached at level 0.
C5_GetBeforeAnyUpdate ==
    \A t \in Procs :
        (cacheNil /\ site[t] # 0)
        => /\ pc[t] \notin { "getPanic", "panicked" }
           /\ GetDone(t) => /\ verbosity[t] = 0
                            /\ cacheHit(vModuleCache, site[t])
                            /\ vModuleCache[site[t]] = 0

\* C6: a Get returns the level assigned by a Filter Set that was the
\* current one at some time between its call and its return: when an
\* Update returned before the Get began and no other Update replaced the
\* Filter Set since, that is the Filter Set of this Update; a Filter Set
\* that a completed Update had replaced before the Get began is never used.
C6_NoStaleRead ==
    \A t \in Procs :
        GetDone(t)
        => \E f \in okFilters[t] :
               Assigns(f, site[t], verbosity[t])

\* C6 witness: a Get that began after the last Update had returned, with no
\* Set in progress, has returned a level above 0 from the cache
C6_Witness ==
    \E t \in Procs :
        /\ GetDone(t)
        /\ Undisturbed(t)
        /\ ~cacheNil
        /\ \A u \in Procs : pc[u] \notin { "setParse", "setLock", "setFilter",
                                           "setCache", "setUnlock", "setRet" }
        /\ ok[t]
        /\ verbosity[t] > 0

\* C7 (the claim as stated; the code violates it): the parsing of newSpec
\* is inside the exclusive critical section of Update, like the swap and
\* the clearing: a Set that is about to parse, or has parsed, holds the lock.
C7_ParseInsideCriticalSection ==
    \A t \in Procs :
        pc[t] \in { "setParse", "setLock" } => vModuleMu

\* C7 as amended: Update parses newSpec before it takes the lock; the swap
\* of the Filter Set and the clearing of the cache are inside one exclusive
\* critical section, so that no Get or Update that reads or writes the pair
\* finds the new Filter Set together with entries cached under the old one.
C7_SwapAndClearAtomic ==
    /\ \A t \in Procs :
           pc[t] \in { "getLookup", "getStore", "setFilter" } => CacheMatchesFilter
    /\ \A t \in Procs :
           pc[t] = "setCache"
           => \A u \in Procs \ {t} : ~InCriticalSection(u)

\* C7 witness: an Update is between its swap and its clearing, the cache
\* still holds an entry the new Filter Set contradicts, and another
\* operation waits for the lock
C7_Witness ==
    \E t, u \in Procs :
        /\ pc[t] = "setCache"
        /\ ~CacheMatchesFilter
        /\ pc[u] \in { "getLock", "setLock" }

\* C8: the Filter Set and the cache are guarded by one exclusive lock on
\* the Get and on the Update path: never are two operations between their
\* Lock and their Unlock at the same time, and the mutex is locked exactly
\* when one is.
C8_MutualExclusion ==
    /\ Cardinality({ t \in Procs : InCriticalSection(t) }) <= 1
    /\ vModuleMu <=> \E t \in Procs : InCriticalSection(t)

\* C8 witness: a Get is inside while an Update waits for the lock
C8_Witness ==
    \E t, u \in Procs :
        /\ pc[t] \in { "getLookup", "getStore" }
        /\ pc[u] = "setLock"
        /\ vModuleMu

\* C9 (the claim as stated; the code violates it): when no rule of the
\* current Filter Set matches the file name of a call site, Get returns 0
\* and V(l) is false there for every l >= 1 the global threshold does not
\* admit.
C9_NoMatchGivesZero ==
    \A t \in Procs :
        (/\ site[t] # 0
         /\ pc[t] \notin { "idle", "vTrue", "getLock", "getLookup" }
         /\ \A f \in okFilters[t] : \A i \in 1..Len(f) :
                ~RuleMatches(f, i, site[t]))
        => /\ pc[t] \in { "getStore", "getUnlock", "vRet" }
           /\ verbosity[t] = 0
           /\ pc[t] = "vRet" => result[t] = FALSE

\* C10: between two consecutive Updates, the resolution of a call site and
\* the matching of its file name are performed at most once, also with
\* concurrent Gets for the site; a Get that finds the site in the cache
\* returns the stored level and changes neither the cache nor the Filter Set.
C10_ResolvedOnce ==
    /\ [](~cacheNil => \A s \in Sites : resolveCount[s] <= 1)
    /\ [][\A t \in Procs :
              (/\ pc[t] = "getLookup"
               /\ pc'[t] # "getLookup"
               /\ site[t] \in DOMAIN vModuleCache)
              => /\ verbosity'[t] = vModuleCache[site[t]]
                 /\ UNCHANGED << vModuleCache, vModuleFilter, resolveCount >>]_vars

\* C10 witness: two Gets for one site under one Filter Set: the second is a
\* cache hit, and the site was resolved once
C10_Witness ==
    \E t, u \in Procs :
        /\ t # u
        /\ GetDone(t) /\ GetDone(u)
        /\ site[t] = site[u]
        /\ Undisturbed(t) /\ Undisturbed(u)
        /\ ~ok[t] /\ ok[u]
        /\ resolveCount[site[t]] = 1

C17_UpdateEmptiesCache ==
    \A t \in Procs :
        pc[t] = "setUnlock"
        => /\ ~cacheNil
           /\ \A s \in Sites : ~cacheHit(vModuleCache, s)

\* C17 witness: an Update that repeats the spec in force is at its Unlock,
\* after a Get under this Filter Set had left a site in the cache at a level
\* above 0
C17_Witness ==
    \E t, u \in Procs :
        /\ pc[t] = "setUnlock"
        /\ repeated
        /\ pc[u] = "vRet"
        /\ okFilters[u] = { vModuleFilter }
        /\ verbosity[u] > 0
        /\ \A s \in Sites : ~cacheHit(vModuleCache, s)

\* the segments of the Set on its own without those that satisfy Drop
Without(Drop_(_)) == SelectSeq(inSegs, LAMBDA g : ~Drop_(g))

\* the Set on its own has ended as the loop of lines 135-149 ends for the
\* value made of the segments segs: with its panic, or with its filter
EndsLike(segs) ==
    LET ref == parseSpec(Join(segs, ","))
    IN  /\ (ppc = "panicked") = ref.panic
        /\ ppc = "done" => outFilter = ref.filter

IsZeroSeg(g) == g = SegZero
IsEmptySeg(g) == g = SegEmpty
IsNoEqualsSeg(g) == g = SegNoEquals
IsNotNumericSeg(g) == g \in { SegNotNumeric, SegDigitsJunk }

HasSeg(Is(_)) == \E i \in 1..Len(inSegs) : Is(inSegs[i])

\* C12: level-0 entries are inert: a spec with segments pattern=0 at any
\* positions gives the Filter Set of the spec without them, and no rule of
\* level 0 is ever stored in the Filter Set.
C12_ZeroLevelInert ==
    ppc \in { "done", "panicked" }
    => /\ EndsLike(Without(IsZeroSeg))
       /\ \A i \in 1..Len(outFilter) : outFilter[i].level # 0

\* C12 witness: a Set of a value with a segment abc=0 and other rules has
\* built its filter
C12_Witness ==
    /\ ppc = "done"
    /\ HasSeg(IsZeroSeg)
    /\ Len(outFilter) > 0

\* the segments of the Set on its own with every segment whose level is
\* not numeric written as abc=0
NotNumericAsZero ==
    [i \in 1..Len(inSegs) |-> IF IsNotNumericSeg(inSegs[i]) THEN SegZero ELSE inSegs[i]]

C14_NoEqualsSkipped ==
    /\ ppc # "panicked"
    /\ ppc = "done" => EndsLike(Without(IsNoEqualsSeg))

\* C15: empty segments are skipped: a spec with leading, trailing or
\* doubled commas gives the Filter Set of the spec without them (and ends
\* as it ends), and the empty string gives the empty Filter Set; an empty
\* segment is no error.
C15_EmptySegmentsSkipped ==
    ppc \in { "done", "panicked" }
    => /\ EndsLike(Without(IsEmptySeg))
       /\ (\A i \in 1..Len(inSegs) : IsEmptySeg(inSegs[i]))
              => (ppc = "done" /\ outFilter = << >>)

\* C15 witness: a Set of a value with a leading and a trailing comma around
\* a rule has built the filter of that rule
C15_Witness ==
    /\ ppc = "done"
    /\ Len(inSegs) = 3
    /\ IsEmptySeg(inSegs[1])
    /\ IsEmptySeg(inSegs[3])
    /\ Len(outFilter) = 1

\* what each pattern matches, by the rules of the claim: the whole name is
\* matched; '*' is any run of characters, '?' one character, '[...]' one
\* character of the class, any other character itself
MatchingNames(p) ==
    CASE p = GlobGopher -> { FileGopherflakes }
      [] p = GlobSecondL -> { FileFlake, FileKlogTest }
      [] p = GlobAll -> { FileGopherflakes, FileThegopher, FileFlake, FileLake, FileKlogTest }
      [] p = GlobFifthUnderscore -> { FileKlogTest }
      [] p = GlobClass -> { FileKlogTest }
      [] p = GlobEndsX -> {}
      [] p = GlobStartsM -> {}
      [] p = GlobThirdUnderscore -> {}
      [] p = GlobClassAbc -> {}
      [] p = GlobStartsL -> { FileLake }
      [] p = GlobEndsE -> { FileFlake, FileLake }
      [] p = LitKlogTest -> { FileKlogTest }
      [] p = LitFlake -> { FileFlake }
      [] p = LitLake -> { FileLake }
      [] p = LitGopher -> {}
      [] p = GlobEscaped -> { FileLake }

\* C16: glob rules match the whole candidate file name, not a substring:
\* every pattern matches exactly the names the rules give it (gopher*
\* matches gopherflakes and not thegopher, ?l* matches flake and not lake),
\* and a literal pattern only the equal name.
C16_GlobWholeName ==
    mResult # {} => mResult = { mFile \in MatchingNames(mPattern) }

\* C16 witness: gopher* has been matched against thegopher, which contains
\* gopher but does not begin with it, and the answer is no
C16_Witness ==
    /\ mPattern = GlobGopher
    /\ mFile = FileThegopher
    /\ mResult = { FALSE }

\* the record the last call made the engine log
LastRecord == records[Len(records)]

\* the last call made the engine log exactly one record
LoggedOne == Len(records) = call.before + 1

\* C18: CopyStandardLogTo called with a name other than INFO, WARNING,
\* ERROR or FATAL panics with a message that names the rejected value, and
\* does not return normally: the standard log is copied nowhere new.
C18_CopyStandardLogToPanics ==
    call.fn = "CopyStandardLogTo"
    => IF call.name \in SeverityNames
       THEN status = "running" /\ stdLogTo = call.name
       ELSE /\ status = "panicked"
            /\ \E i \in 1..Len(panicValue) : panicValue[i] = call.name
            /\ stdLogTo # call.name

\* C18 witness: CopyStandardLogTo("LOG") has panicked after
\* CopyStandardLogTo("INFO") had returned
C18_Witness ==
    /\ call.fn = "CopyStandardLogTo"
    /\ call.name = "LOG"
    /\ stdLogTo = "INFO"
    /\ status = "panicked"

\* C19: depth forwarding: for every family X of Info, Warning, Error, Fatal
\* and Exit and every depth d >= 0, the record of XDepth(d, msg) is
\* attributed to the frame d levels above the caller of XDepth (when the
\* stack has one), and that of XDepth(0, msg) to the frame X(msg) called from
\* the same place is attributed to, the caller: the forwarding function adds
\* exactly one frame for itself.
C19_DepthForwarding ==
    /\ call.fn = "XDepth"
       => /\ LoggedOne
          /\ LastRecord.severity = engineSeverity(call.severity)
          /\ call.depth < call.frames
                 => LastRecord.frame = call.frames - call.depth
          /\ call.depth >= call.frames => LastRecord.frame = UnknownFrame
    /\ call.fn = "X"
       => /\ LoggedOne
          /\ LastRecord.severity = engineSeverity(call.severity)
          /\ LastRecord.frame = call.frames

\* C19 witness: WarningDepth(1, msg), called two frames deep, is attributed
\* to the caller of its caller
C19_Witness ==
    /\ call.fn = "XDepth"
    /\ call.severity = "Warning"
    /\ call.depth = 1
    /\ call.frames = 2
    /\ LastRecord = [severity |-> "WARNING", frame |-> 1]

\* C20: the Verbose guard: Info, Infoln and Infof on a Verbose that is
\* false make the engine log no record, and on a Verbose that is true
\* exactly one record, in the INFO log, attributed to their caller.
C20_VerboseGuard ==
    call.fn = "Verbose"
    => IF call.v
       THEN /\ LoggedOne
            /\ LastRecord = [severity |-> "INFO", frame |-> call.frames]
       ELSE Len(records) = call.before

\* C20 witness: Infof on a false Verbose, after a record was logged, has
\* logged nothing
C20_Witness ==
    /\ call.fn = "Verbose"
    /\ call.variant = "f"
    /\ ~call.v
    /\ call.before = 1
    /\ Len(records) = 1

\* C21 (the claim as stated; the code violates it): every level stored in a
\* rule of the Filter Set or returned by Get is a non-negative integer,
\* whatever the spec string of the Update, a negative level such as abc=-1
\* included.
C21_LevelsNonNegative ==
    /\ \A i \in 1..Len(outFilter) : outFilter[i].level >= 0
    /\ \A f \in DOMAIN outLevels : outLevels[f] >= 0

IsRejectedLevelSeg(g) == g \in { SegNotNumeric, SegDigitsJunk, SegOverflow }

\* C27 (the claim as stated; the code violates it): a level text that the
\* base-10, 32-bit parse rejects, a number outside the signed 32-bit range
\* included, parses as level 0: the rule is dropped, and the Set ends as it
\* does for the spec without the segment.
C27_RejectedLevelDropped ==
    ppc \in { "done", "panicked", "got" } => EndsLike(Without(IsRejectedLevelSeg))

IsBadGlobSeg(g) == g = SegBadGlob

\* the rules of the filter of the Set on its own whose pattern is well formed
WellFormedRules == SelectSeq(outFilter, LAMBDA m : m.pattern # NameBracket)

\* C30: a rule whose glob pattern is malformed (the unterminated class "[a")
\* matches no file name, not even the file name "[a", and raises no error at
\* Update or at Get: the loop of Set does not panic because of it, and Get
\* returns for every file name what the other rules of the Filter Set give,
\* those after the malformed rule included.
C30_BadGlobMatchesNothing ==
    /\ ppc = "panicked" => HasSeg(IsNoEqualsSeg)
    /\ ppc = "got" => \A f \in ProbeNames : outLevels[f] = filterLevel(WellFormedRules, f)

\* C30 witness: after the Set of "[a=3,abc=2" Get gives level 2 for abc and 0
\* for the file name "[a"
C30_Witness ==
    /\ ppc = "got"
    /\ inSegs = << SegBadGlob, SegLiteral >>
    /\ Len(outFilter) = 2
    /\ outLevels[NameAbc] = 2
    /\ outLevels[NameBracket] = 0

\* the pattern has none of the characters \ * ? [ ]
NoMetaChar(pattern) ==
    \A i \in 1..Len(pattern) : pattern[i] \notin { "\\", "*", "?", "[", "]" }

\* C26: a rule is literal exactly when its pattern contains none of the
\* characters \ * ? [ ]: the rule made at parse time for such a pattern
\* matches a file name if and only if the two strings are equal, and the
\* rule made for any other pattern matches as the glob does (l\ake matches
\* lake, which is not the same string).
C26_LiteralClassification ==
    mResult # {}
    => mResult = { IF NoMetaChar(mPattern) THEN mFile = mPattern
                   ELSE Match(mPattern, mFile) }

\* C26 witness: the literal rule lake has been matched against the file name
\* lake and the answer is yes
C26_Witness ==
    /\ mPattern = LitLake
    /\ mFile = FileLake
    /\ mResult = { TRUE }

\* the last component without a trailing ".go"
WithoutDotGo(last) ==
    CASE last = LastAbcGo -> LastAbc
      [] last = LastAbc -> LastAbc
      [] last = LastAGoGo -> DirDotGo
      [] last = LastDotGo -> << >>
      [] last = LastGo -> LastGo

\* C25: call-site resolution yields the base file name only: for every path
\* the name matched against the rules is the last component of the path
\* without a trailing ".go" (the path with the ".go" removed and then
\* everything up to and including the last '/' removed); it contains no
\* '/', and a path without the suffix keeps its last component unchanged.
C25_BaseNameOnly ==
    rName # {}
    => /\ rName = { WithoutDotGo(rFile) }
       /\ \A n \in rName : \A i \in 1..Len(n) : n[i] # "/"
       /\ ~HasSuffix(rFile, LastDotGo) => rName = { rFile }

\* C25 witness: the rooted path /a.go/d/abc.go, with two directories of
\* which one ends in ".go", has been resolved to abc
C25_Witness ==
    /\ rRooted
    /\ rDirs = << DirDotGo, DirD >>
    /\ rFile = LastAbcGo
    /\ rName = { LastAbc }

\* C22: global short-circuit: when the engine's global verbosity check
\* admits the requested level, V returns true without consulting the filter:
\* such a goroutine is at the return of line 226 with the answer true and is
\* never in vmoduleGet (so it never takes the lock), and its step leaves the
\* mutex, the Filter Set and the Call-Site Cache unchanged; a goroutine is in
\* vmoduleGet only when the global check has failed.
C22_GlobalShortCircuit ==
    /\ [](\A t \in Procs :
              /\ enabled[t] => (pc[t] = "vTrue" /\ result[t])
              /\ pc[t] = "vTrue" => enabled[t]
              /\ (InGet(t) \/ pc[t] = "vRet") => ~enabled[t])
    /\ [][\A t \in Procs :
              (enabled'[t] /\ ~enabled[t]) => UNCHANGED shared]_vars

\* C22 witness: V has returned true at line 226 while another goroutine
\* holds the mutex, and before any Set has made the cache
C22_Witness ==
    \E t, u \in Procs :
        /\ pc[t] = "vTrue"
        /\ enabled[t]
        /\ result[t]
        /\ pc[u] = "getStore"
        /\ vModuleMu
        /\ cacheNil

\* goroutine t takes the step from this state to the next
Steps(t) == pc'[t] # pc[t]

\* C23: between two consecutive Updates the Call-Site Cache only grows: no
\* step of a Get removes an entry, changes the level of an entry or modifies
\* the Filter Set; once an Update has made the cache, the store after a miss
\* adds exactly the one entry for the queried call site, and no other step
\* of a Get changes the cache.
C23_CacheOnlyGrows ==
    [][\A t \in Procs :
          (InGet(t) /\ Steps(t))
          => /\ UNCHANGED vModuleFilter
             /\ \A s \in DOMAIN vModuleCache :
                    /\ s \in DOMAIN vModuleCache'
                    /\ vModuleCache'[s] = vModuleCache[s]
             /\ IF pc[t] = "getStore" /\ ~cacheNil
                THEN /\ site[t] \notin DOMAIN vModuleCache
                     /\ DOMAIN vModuleCache' = DOMAIN vModuleCache \cup { site[t] }
                     /\ vModuleCache'[site[t]] = verbosity[t]
                ELSE UNCHANGED vModuleCache]_vars

\* C23 witness: a Get has just stored its site after a miss, next to the
\* entry of the other site
C23_Witness ==
    \E t \in Procs :
        /\ pc[t] = "getUnlock"
        /\ ~ok[t]
        /\ DOMAIN vModuleCache = Sites
        /\ vModuleCache[site[t]] = verbosity[t]

\* C28: when the wrapped engine flag rejects the value, Set returns that
\* error and leaves the Filter Set and the Call-Site Cache as they were: a
\* Set that has the error is at its return, and none of its steps changes
\* the Filter Set or the cache; the state changes only in a Set whose value
\* the engine has accepted.
C28_RejectLeavesState ==
    /\ [](\A t \in Procs : err[t] => pc[t] = "setRet")
    /\ [][\A t \in Procs :
              ((err[t] \/ err'[t]) /\ Steps(t))
              => UNCHANGED << vModuleFilter, vModuleCache, cacheNil, innerValue >>]_vars

\* C28 witness: a Set is about to return the error of the engine for a value
\* other than the one the Filter Set in force was parsed from
C28_Witness ==
    \E t \in Procs :
        /\ pc[t] = "setRet"
        /\ err[t]
        /\ Len(vModuleFilter) > 0
        /\ lastSpec # { value[t] }
        /\ innerValue # value[t]

\* no goroutine is inside Set, and none has panicked
UpdatesReturned == \A t \in Procs : pc[t] \in { "idle", "vTrue", "vRet" } \cup
                                              { "getLock", "getLookup", "getStore", "getUnlock" }

\* C29 (the claim as stated; the code violates it): under concurrent
\* Updates, once all of them have returned, the Filter Set is the one parsed
\* from the spec string that the wrapped engine flag holds.
C29_FilterFromEngineSpec ==
    UpdatesReturned => vModuleFilter = parseSpec(innerValue).filter

\* C24 (the claim as stated; the code violates it): every Get and every
\* Update that starts returns to its caller, on every exit path and in every
\* interleaving: no goroutine that has started one is ever left where it
\* cannot return.
C24_EveryOperationReturns ==
    \A t \in Procs : pc[t] # "panicked"

====
